---- MODULE Spec2Model ----
(***************************************************************************)
(* The Dash productivity platform: a Flask application (app.py) that        *)
(* registers five blueprints (modules/__init__.py) and adds a root redirect *)
(* and a dashboard page.  The model follows the module body of app.py       *)
(* statement by statement and then serves GET requests, each in two steps   *)
(* (URL matching when the request context is pushed, then the view          *)
(* function), so that requests interleave.                                  *)
(***************************************************************************)
EXTENDS Naturals, Sequences, FiniteSets, TLC

\* Number of requests that can be in flight at once.
MaxInFlight == 2

\* The path segments requests are made of: the five prefixes, the dashboard
\* and one segment no route has.
Segments == {"messaging", "crm", "project", "timesheets", "leave", "dashboard", "nope"}

(***************************************************************************)
(* URLs.  A path is its sequence of segments and whether it ends in "/":    *)
(* "/crm/" is Url(<<"crm">>, TRUE), "/dashboard" is Url(<<"dashboard">>,    *)
(* FALSE), "/" is Url(<<>>, TRUE).                                          *)
(***************************************************************************)
Url(segs, slash) == [segs |-> segs, slash |-> slash]

NoUrl == Url(<<>>, FALSE)

\* An endpoint name: "dashboard" is Endpoint("", "dashboard"), "crm.index"
\* is Endpoint("crm", "index").
Endpoint(bp, fn) == [bp |-> bp, fn |-> fn]

NoEndpoint == Endpoint("", "")

\* A view function is what its body does: render a template or redirect to
\* the URL of an endpoint.
Render(template) == [kind |-> "render", template |-> template, endpoint |-> NoEndpoint]

RedirectTo(endpoint) == [kind |-> "redirect", template |-> "", endpoint |-> endpoint]

(***************************************************************************)
(* modules/*.py: the five blueprints and their index views.                 *)
(***************************************************************************)
messaging_index == Render("messaging.html")

crm_index_wrong_template == Render("project.html")

crm_index == Render("crm.html")

project_index == Render("project.html")

timesheets_index == Render("timesheets.html")

leave_index == Render("leave.html")

\* Blueprint(name, __name__, url_prefix=prefix) with one @bp.route('/').
Blueprint(name, prefix, view) ==
    [name |-> name,
     url_prefix |-> Url(<<prefix>>, FALSE),
     routes |-> << [rule |-> Url(<<>>, TRUE), endpoint |-> "index", view |-> view] >>]

messaging_bp == Blueprint("messaging", "messaging", messaging_index)

crm_bp_project_prefix == Blueprint("crm", "project", crm_index)

crm_bp == Blueprint("crm", "crm", crm_index)

project_bp == Blueprint("project", "project", project_index)

timesheet_bp == Blueprint("timesheets", "timesheets", timesheets_index)

leave_bp == Blueprint("leave", "leave", leave_index)

\* modules/__init__.py: the registry.
blueprints == << messaging_bp, crm_bp, project_bp, timesheet_bp, leave_bp >>

(***************************************************************************)
(* app.py: the two views of the application itself.                         *)
(***************************************************************************)
index_to_crm == RedirectTo(Endpoint("crm", "index"))

index == RedirectTo(Endpoint("", "dashboard"))

dashboard_wrong_template == Render("index.html")

dashboard == Render("dashboard.html")

\* The templates the repository ships in its templates/ folder.
TemplateFiles ==
    {"dashboard.html", "messaging.html", "crm.html", "project.html",
     "timesheets.html", "leave.html"}

VARIABLES
    pc,        \* the statement of app.py's module body that runs next
    name,      \* __name__ of app.py: "__main__" when run as a script
    registry,  \* modules.blueprints, the list the loop iterates
    i,         \* position of the loop `for bp in blueprints`
    app,       \* the Flask object: url_map, view_functions, blueprints
    listener,  \* the server app.run starts
    templates, \* the files in the templates folder
    reqs       \* the requests in flight

vars == << pc, name, registry, i, app, listener, templates, reqs >>

(***************************************************************************)
(* Flask(__name__): an empty URL map, no view functions, no blueprints.     *)
(***************************************************************************)
NewApp == [url_map |-> << >>, view_functions |-> << >>, blueprints |-> {}]

Ok(a) == [ok |-> TRUE, app |-> a]

Failed(a) == [ok |-> FALSE, app |-> a]

\* url_prefix.rstrip("/") + "/" + rule.lstrip("/")
JoinRule(prefix, rule) == Url(prefix.segs \o rule.segs, rule.slash)

\* app.add_url_rule: refuses an endpoint already bound to another function,
\* otherwise appends the rule and binds the endpoint.
add_url_rule(a, rule, endpoint, view) ==
    IF endpoint \in DOMAIN a.view_functions /\ a.view_functions[endpoint] # view
    THEN Failed(a)
    ELSE Ok([a EXCEPT
            !.url_map = Append(@, [rule |-> rule, endpoint |-> endpoint]),
            !.view_functions =
                [e \in DOMAIN @ \cup {endpoint} |->
                    IF e = endpoint THEN view ELSE @[e]]])

RECURSIVE add_routes(_, _, _)
add_routes(a, bp, k) ==
    IF k > Len(bp.routes) THEN Ok(a)
    ELSE LET r == add_url_rule(a, JoinRule(bp.url_prefix, bp.routes[k].rule),
                               Endpoint(bp.name, bp.routes[k].endpoint),
                               bp.routes[k].view)
         IN IF r.ok THEN add_routes(r.app, bp, k + 1) ELSE r

register_blueprint_unique_prefix(a, bp) ==
    IF \/ bp.name \in a.blueprints
       \/ \E k \in 1..Len(a.url_map) : a.url_map[k].rule.segs = bp.url_prefix.segs
    THEN Failed(a)
    ELSE add_routes([a EXCEPT !.blueprints = @ \cup {bp.name}], bp, 1)

\* app.register_blueprint(bp): a name already registered is an error; the
\* blueprint's routes are then added under its prefix.
register_blueprint(a, bp) ==
    IF bp.name \in a.blueprints
    THEN Failed(a)
    ELSE add_routes([a EXCEPT !.blueprints = @ \cup {bp.name}], bp, 1)

(***************************************************************************)
(* Serving a request.                                                       *)
(***************************************************************************)
\* A response: status, the template rendered as its page ("" when none
\* is), the Location header, and the view function that ran.
Response(status, page, location, handler) ==
    [status |-> status, page |-> page, location |-> location, handler |-> handler]

NoResponse == Response(0, "", NoUrl, NoEndpoint)

Context(endpoint, exc) == [endpoint |-> endpoint, exc |-> exc]

Candidates(a, path) ==
    {k \in 1..Len(a.url_map) :
        /\ a.url_map[k].rule.segs = path.segs
        /\ (a.url_map[k].rule.slash = path.slash \/ a.url_map[k].rule.slash)}

match_request_prefix(a, path) ==
    LET hits == {k \in 1..Len(a.url_map) : a.url_map[k].rule.segs = path.segs}
    IN IF hits = {} THEN Context(NoEndpoint, "NotFound")
       ELSE Context(a.url_map[CHOOSE k \in hits : \A j \in hits : k <= j].endpoint, "")

\* The URL map's match: the first rule for the path wins; a rule ending in
\* "/" asked for without the "/" redirects to the path with it; anything
\* else is not found.
match_request(a, path) ==
    LET hits == Candidates(a, path)
    IN IF hits = {} THEN Context(NoEndpoint, "NotFound")
       ELSE LET k == CHOOSE k \in hits : \A j \in hits : k <= j
            IN IF a.url_map[k].rule.slash = path.slash
               THEN Context(a.url_map[k].endpoint, "")
               ELSE Context(NoEndpoint, "RequestRedirect")

\* url_for(endpoint): the URL of the first rule of that endpoint.
url_for(a, endpoint) ==
    LET hits == {k \in 1..Len(a.url_map) : a.url_map[k].endpoint = endpoint}
    IN IF hits = {} THEN NoUrl
       ELSE a.url_map[CHOOSE k \in hits : \A j \in hits : k <= j].rule

render_template_blank(tpl, template, handler) ==
    IF template \in tpl
    THEN Response(200, template, NoUrl, handler)
    ELSE Response(200, "", NoUrl, handler)

\* render_template(name): the page, or the server error of a template that
\* is not in the folder.
render_template(tpl, template, handler) ==
    IF template \in tpl
    THEN Response(200, template, NoUrl, handler)
    ELSE Response(500, "", NoUrl, handler)

\* redirect(url_for(endpoint)); an endpoint without a rule is a build error.
redirect(a, endpoint, handler) ==
    IF url_for(a, endpoint) = NoUrl
    THEN Response(500, "", NoUrl, handler)
    ELSE Response(302, "", url_for(a, endpoint), handler)

\* Flask's dispatch: a routing exception becomes its response, otherwise the
\* view function bound to the endpoint runs.
dispatch_request(a, tpl, path, ctx) ==
    IF ctx.exc = "NotFound" THEN Response(404, "", NoUrl, NoEndpoint)
    ELSE IF ctx.exc = "RequestRedirect"
    THEN Response(308, "", Url(path.segs, TRUE), NoEndpoint)
    ELSE LET view == a.view_functions[ctx.endpoint]
         IN IF view.kind = "render"
            THEN render_template(tpl, view.template, ctx.endpoint)
            ELSE redirect(a, view.endpoint, ctx.endpoint)

handler_effect_rebind(a, ctx) ==
    IF ctx.exc = "" /\ ctx.endpoint.bp # ""
    THEN [a EXCEPT !.view_functions =
            [e \in DOMAIN @ |-> IF e.bp # "" THEN @[ctx.endpoint] ELSE @[e]]]
    ELSE a

\* What serving a request does to the application object: no view function
\* assigns anything.
handler_effect(a, ctx) == a

(***************************************************************************)
(* app.py, the module body.                                                 *)
(***************************************************************************)
StartupOrder_run_before_routes == << "register", "run", "route_index", "route_dashboard" >>

\* The statements of app.py in the order the file has them: the loop over
\* the blueprints, @app.route('/'), @app.route('/dashboard'), app.run.
StartupOrder == << "register", "route_index", "route_dashboard", "run" >>

After(stmt) ==
    LET k == CHOOSE k \in 1..Len(StartupOrder) : StartupOrder[k] = stmt
    IN IF k < Len(StartupOrder) THEN StartupOrder[k + 1] ELSE "end"

\* for bp in blueprints: app.register_blueprint(bp) -- one iteration; an
\* exception ends the program.
Register ==
    /\ pc = "register"
    /\ i <= Len(registry)
    /\ LET r == register_blueprint(app, registry[i])
       IN IF r.ok
          THEN /\ app' = r.app
               /\ i' = i + 1
               /\ pc' = IF i + 1 > Len(registry) THEN After("register") ELSE pc
          ELSE /\ pc' = "failed"
               /\ UNCHANGED << app, i >>
    /\ UNCHANGED << name, registry, listener, templates, reqs >>

\* @app.route('/') def index
DefineIndex ==
    /\ pc = "route_index"
    /\ LET r == add_url_rule(app, Url(<< >>, TRUE), Endpoint("", "index"), index)
       IN IF r.ok
          THEN app' = r.app /\ pc' = After("route_index")
          ELSE pc' = "failed" /\ UNCHANGED app
    /\ UNCHANGED << name, registry, i, listener, templates, reqs >>

\* @app.route('/dashboard') def dashboard
DefineDashboard ==
    /\ pc = "route_dashboard"
    /\ LET r == add_url_rule(app, Url(<< "dashboard" >>, FALSE),
                             Endpoint("", "dashboard"), dashboard)
       IN IF r.ok
          THEN app' = r.app /\ pc' = After("route_dashboard")
          ELSE pc' = "failed" /\ UNCHANGED app
    /\ UNCHANGED << name, registry, i, listener, templates, reqs >>

\* if __name__ == '__main__': app.run(debug=True) -- app.run does not
\* return while the server serves.
Run ==
    /\ pc = "run"
    /\ IF name = "__main__"
       THEN /\ listener' = [running |-> TRUE, debug |-> TRUE, starts |-> listener.starts + 1]
            /\ pc' = "serving"
       ELSE /\ pc' = After("run")
            /\ UNCHANGED listener
    /\ UNCHANGED << name, registry, i, app, templates, reqs >>

(***************************************************************************)
(* Requests.  The server of app.run serves them, or, when app.py was        *)
(* imported, the host that imported it, once the import has finished.       *)
(***************************************************************************)
Paths == {Url(<< >>, TRUE)} \cup {Url(<< s >>, b) : s \in Segments, b \in BOOLEAN}

\* The paths requests are sent to: the seven routes, a prefix without its
\* "/", the dashboard with a "/" too many and a path no route has.
RequestPaths ==
    {p \in Paths : p.slash = (p.segs \notin {<< "dashboard" >>, << "nope" >>})}
        \cup {Url(<< "crm" >>, FALSE), Url(<< "dashboard" >>, TRUE)}

Accepting == pc = "serving" \/ (pc = "end" /\ name # "__main__")

Request(phase, path, ctx, response) ==
    [phase |-> phase, path |-> path, ctx |-> ctx, response |-> response]

\* A GET arrives: its request context is pushed, which matches the URL.
Receive(path) ==
    /\ Accepting
    /\ Cardinality(reqs) < MaxInFlight
    /\ reqs' = reqs \cup {Request("matched", path, match_request(app, path), NoResponse)}
    /\ UNCHANGED << pc, name, registry, i, app, listener, templates >>

\* The matched request is dispatched: its view function runs.
Dispatch(r) ==
    /\ r.phase = "matched"
    /\ reqs' = (reqs \ {r}) \cup
            {Request("done", r.path, r.ctx, dispatch_request(app, templates, r.path, r.ctx))}
    /\ app' = handler_effect(app, r.ctx)
    /\ UNCHANGED << pc, name, registry, i, listener, templates >>

\* The response has been sent; the request context is popped.
Close(r) ==
    /\ r.phase = "done"
    /\ reqs' = reqs \ {r}
    /\ UNCHANGED << pc, name, registry, i, app, listener, templates >>

InitWith(reg, tpls) ==
    /\ pc = StartupOrder[1]
    /\ name \in {"__main__", "app"}
    /\ registry = reg
    /\ i = 1
    /\ app = NewApp
    /\ listener = [running |-> FALSE, debug |-> FALSE, starts |-> 0]
    /\ templates = tpls
    /\ reqs = {}

Init == InitWith(blueprints, TemplateFiles)

Next ==
    \/ Register
    \/ DefineIndex
    \/ DefineDashboard
    \/ Run
    \/ \E path \in RequestPaths : Receive(path)
    \/ \E r \in reqs : Dispatch(r)
    \/ \E r \in reqs : Close(r)

Spec == Init /\ [][Next]_vars

(***************************************************************************)
(* The whole of a request at once, and the whole of the startup at once:    *)
(* what one request alone gets from a freshly started application.          *)
(***************************************************************************)
Serve(a, tpl, path) == dispatch_request(a, tpl, path, match_request(a, path))

RECURSIVE register_all(_, _, _)
register_all(a, reg, k) ==
    IF k > Len(reg) THEN Ok(a)
    ELSE LET r == register_blueprint(a, reg[k])
         IN IF r.ok THEN register_all(r.app, reg, k + 1) ELSE r

StartupApp(reg) ==
    LET a1 == register_all(NewApp, reg, 1).app
        a2 == add_url_rule(a1, Url(<< >>, TRUE), Endpoint("", "index"), index).app
    IN add_url_rule(a2, Url(<< "dashboard" >>, FALSE), Endpoint("", "dashboard"), dashboard).app

(***************************************************************************)
(* Other starting points: a registry in another order, a registry with one  *)
(* group renamed or moved to another prefix, a templates folder with files  *)
(* missing.                                                                 *)
(***************************************************************************)
Injective(f) == \A a, b \in DOMAIN f : f[a] = f[b] => a = b

Reorderings ==
    {[k \in 1..Len(blueprints) |-> blueprints[p[k]]] :
        p \in {q \in [1..Len(blueprints) -> 1..Len(blueprints)] : Injective(q)}}

ModuleNames == {blueprints[k].name : k \in 1..Len(blueprints)}

Variants ==
    {[blueprints EXCEPT ![j] = Blueprint(n, p, blueprints[j].routes[1].view)] :
        j \in 1..Len(blueprints), n \in ModuleNames, p \in ModuleNames}

InitPerm == \E reg \in Reorderings : InitWith(reg, TemplateFiles)

SpecPerm == InitPerm /\ [][Next]_vars

InitReg == \E reg \in Variants : InitWith(reg, TemplateFiles)

SpecReg == InitReg /\ [][Next]_vars

InitTpl == \E tpls \in SUBSET TemplateFiles : InitWith(blueprints, tpls)

SpecTpl == InitTpl /\ [][Next]_vars

(***************************************************************************)
(* The routes as the interface table lists them.                            *)
(***************************************************************************)
ModulePage ==
    [messaging |-> "messaging.html", crm |-> "crm.html", project |-> "project.html",
     timesheets |-> "timesheets.html", leave |-> "leave.html"]

Prefixes == DOMAIN ModulePage

RootPath == Url(<< >>, TRUE)

DashboardPath == Url(<< "dashboard" >>, FALSE)

ModuleRoot(P) == Url(<< P >>, TRUE)

RegisteredPaths == {RootPath, DashboardPath} \cup {ModuleRoot(P) : P \in Prefixes}

Done == {r \in reqs : r.phase = "done"}

\* C1: once startup has completed, GET P/ of each of the five prefixes is
\* dispatched to that module's index and answers 200 with that module's page.
C1_ModulePages ==
    /\ Accepting =>
         \A P \in Prefixes :
            Serve(app, templates, ModuleRoot(P)) =
                Response(200, ModulePage[P], NoUrl, Endpoint(P, "index"))
    /\ \A r \in Done : \A P \in Prefixes :
         r.path = ModuleRoot(P) =>
            r.response = Response(200, ModulePage[P], NoUrl, Endpoint(P, "index"))

C1_Witness ==
    \E r \in Done :
        /\ r.path = ModuleRoot("timesheets")
        /\ r.response.status = 200
        /\ r.response.page = "timesheets.html"

\* C2: GET / answers with a redirect to /dashboard and no page; the target
\* is the application's dashboard endpoint, so following it gives what
\* GET /dashboard gives.
C2_RootRedirect ==
    /\ Accepting =>
         /\ Serve(app, templates, RootPath) =
                Response(302, "", DashboardPath, Endpoint("", "index"))
         /\ match_request(app, Serve(app, templates, RootPath).location) =
                Context(Endpoint("", "dashboard"), "")
    /\ \A r \in Done :
         r.path = RootPath =>
            /\ r.response = Response(302, "", DashboardPath, Endpoint("", "index"))
            /\ \A f \in Done :
                 f.path = r.response.location =>
                    /\ f.ctx.endpoint = Endpoint("", "dashboard")
                    /\ f.response = Serve(app, templates, DashboardPath)

C2_Witness ==
    \E r, f \in Done :
        /\ r.path = RootPath
        /\ r.response.status = 302
        /\ f.path = r.response.location
        /\ f.response.page = "dashboard.html"

\* C3: GET /dashboard answers 200 with the dashboard page in every state
\* after startup.
C3_Dashboard ==
    /\ Accepting =>
         Serve(app, templates, DashboardPath) =
            Response(200, "dashboard.html", NoUrl, Endpoint("", "dashboard"))
    /\ \A r \in Done :
         r.path = DashboardPath =>
            r.response = Response(200, "dashboard.html", NoUrl, Endpoint("", "dashboard"))

C3_Witness ==
    \E r \in Done : r.path = DashboardPath /\ r.response.status = 200

(***************************************************************************)
(* Registries with a shared name or a shared prefix (SpecReg).              *)
(***************************************************************************)
DupName(reg) == \E a, b \in 1..Len(reg) : a < b /\ reg[a].name = reg[b].name

DupPrefix(reg) == \E a, b \in 1..Len(reg) : a < b /\ reg[a].url_prefix = reg[b].url_prefix

Started == pc \in {"serving", "end"}

Mounted(bp) ==
    \E k \in 1..Len(app.url_map) :
        app.url_map[k] = [rule |-> JoinRule(bp.url_prefix, Url(<< >>, TRUE)),
                          endpoint |-> Endpoint(bp.name, "index")]

FirstWithPrefix(segs) ==
    registry[CHOOSE k \in 1..Len(registry) :
        /\ registry[k].url_prefix.segs = segs
        /\ \A j \in 1..Len(registry) : registry[j].url_prefix.segs = segs => k <= j]

HandlerTemplate(endpoint) ==
    IF endpoint.bp = "" THEN "dashboard.html" ELSE ModulePage[endpoint.bp]

Renders(r) == r.ctx.exc = "" /\ r.ctx.endpoint # Endpoint("", "index")

\* C5 (as claimed): with a template missing, startup aborts and no request
\* is ever served.
C5_Original == templates # TemplateFiles => ~Started /\ reqs = {}

\* C5 (amended): a missing template never stops startup; the request to the
\* route that names it fails with a server error when it is rendered, and the
\* routes whose templates exist answer 200 with their page.
C5_MissingTemplate ==
    /\ pc # "failed"
    /\ \A r \in Done :
         Renders(r) =>
            r.response =
                IF HandlerTemplate(r.ctx.endpoint) \in templates
                THEN Response(200, HandlerTemplate(r.ctx.endpoint), NoUrl, r.ctx.endpoint)
                ELSE Response(500, "", NoUrl, r.ctx.endpoint)

C5_Witness ==
    /\ Started
    /\ \E r, q \in Done :
         /\ r.path = ModuleRoot("messaging")
         /\ "messaging.html" \notin templates
         /\ r.response.status = 500
         /\ q.path = ModuleRoot("crm")
         /\ q.response.status = 200

(***************************************************************************)
(* Independence of requests, and what requests leave alone.                 *)
(***************************************************************************)
\* C6: whatever was served before and whatever else is in flight, a request
\* is matched and answered exactly as it would be were it the first and only
\* request to the freshly started application.
C6_Independent ==
    \A r \in reqs :
        /\ r.ctx = match_request(StartupApp(registry), r.path)
        /\ r.phase = "done" => r.response = Serve(StartupApp(registry), templates, r.path)

C6_Witness ==
    \E r, q \in reqs :
        /\ r.phase = "done" /\ r.path = ModuleRoot("leave") /\ r.response.status = 200
        /\ q.phase = "matched" /\ q.path = ModuleRoot("leave")

RegistryOrder == [k \in 1..Len(registry) |-> registry[k].name]

\* C7: the registry is the sequence (messaging, crm, project, timesheets,
\* leave) throughout, and no step taken while requests are served changes the
\* registry, the URL map, the view functions or the registered blueprints.
C7_RegistryFrozen ==
    /\ [](RegistryOrder = << "messaging", "crm", "project", "timesheets", "leave" >>)
    /\ [][Accepting => registry' = registry /\ app' = app]_vars

C7_Witness ==
    /\ Accepting
    /\ app = StartupApp(blueprints)
    /\ \E r, q \in Done : r.response.status = 200 /\ q.response.status = 404

Unmatched(path) == path \notin RegisteredPaths

\* C8 (as claimed): every path that is none of the seven routes gets the
\* not-found response, with no handler run and no template rendered.
C8_Original ==
    \A r \in Done :
        Unmatched(r.path) => r.response = Response(404, "", NoUrl, NoEndpoint)

\* C8 (amended): a path that is none of the seven routes runs no handler,
\* renders no template and leaves the route table as startup built it; it
\* gets the not-found response, except a module prefix without its final
\* "/", which gets a redirect to the prefix with it.
C8_Unmatched ==
    /\ Accepting =>
         \A path \in Paths :
            Unmatched(path) =>
                Serve(app, templates, path) =
                    IF ~path.slash /\ path.segs[1] \in Prefixes
                    THEN Response(308, "", Url(path.segs, TRUE), NoEndpoint)
                    ELSE Response(404, "", NoUrl, NoEndpoint)
    /\ \A r \in Done :
         Unmatched(r.path) =>
            /\ r.response.handler = NoEndpoint
            /\ r.response.page = ""
            /\ r.response.status \in {308, 404}
            /\ r.response.status = 308 <=> (~r.path.slash /\ r.path.segs[1] \in Prefixes)
            /\ r.response.status = 308 => r.response.location = Url(r.path.segs, TRUE)
            /\ app = StartupApp(registry)

C8_Witness ==
    \E r, q \in Done :
        /\ r.path = Url(<< "nope" >>, FALSE) /\ r.response.status = 404
        /\ q.path = Url(<< "crm" >>, FALSE) /\ q.response.status = 308

(***************************************************************************)
(* Registration order (SpecPerm).                                           *)
(***************************************************************************)
\* The application the registry's own order builds.
ReferenceApp == StartupApp(blueprints)

\* C9: registered in any order, the five groups give an application that,
\* when startup ends, matches every path to the same handler and answers it
\* with the same response as the registry's own order does; and every
\* response served later is the one the registry's own order gives.
C9_OrderIndependent ==
    /\ Accepting /\ reqs = {} =>
         \A path \in Paths :
            /\ match_request(app, path) = match_request(ReferenceApp, path)
            /\ Serve(app, templates, path) = Serve(ReferenceApp, templates, path)
    /\ \A r \in Done : r.response = Serve(ReferenceApp, templates, r.path)

C9_Witness ==
    /\ Accepting
    /\ registry = << leave_bp, timesheet_bp, project_bp, crm_bp, messaging_bp >>
    /\ \E r \in Done : r.path = ModuleRoot("crm") /\ r.response.page = "crm.html"

(***************************************************************************)
(* Startup order.                                                           *)
(***************************************************************************)
Rules == {app.url_map[k] : k \in 1..Len(app.url_map)}

AllRoutes ==
    {[rule |-> RootPath, endpoint |-> Endpoint("", "index")],
     [rule |-> DashboardPath, endpoint |-> Endpoint("", "dashboard")]}
        \cup {[rule |-> ModuleRoot(P), endpoint |-> Endpoint(P, "index")] : P \in Prefixes}

\* C10: whenever a request can arrive or is in flight, and whenever the
\* listener runs, all seven routes are in the URL map; the listener runs only
\* under __main__, is started at most once, and keeps its configuration.
C10_StartupOrder ==
    /\ []((Accepting \/ reqs # {} \/ listener.running) =>
            /\ Rules = AllRoutes
            /\ Len(app.url_map) = Cardinality(AllRoutes)
            /\ DOMAIN app.view_functions = {x.endpoint : x \in AllRoutes})
    /\ [](listener.starts <= 1 /\ (listener.running => name = "__main__" /\ listener.debug))
    /\ [](name # "__main__" => listener.starts = 0)
    /\ [][listener.running => listener' = listener]_vars

C10_Witness ==
    /\ listener.running
    /\ listener.starts = 1
    /\ \E r \in reqs : r.phase = "matched"
    /\ \E r \in reqs : r.phase = "done"

====
